---- MODULE Spec2Model ----
(***************************************************************************)
(* Model of esa.ReadCSVFile (gotmc/keysight, package esa): the decoder of  *)
(* Keysight/Agilent ESA trace files.  Strings are sequences of one-        *)
(* character strings, the NUL byte is the character "NUL".  The character  *)
(* set of the model is: decimal digits, '+', '-', ' ', ',', 'x' and NUL;   *)
(* on this character set strconv.ParseFloat and strconv.Atoi both accept   *)
(* exactly an optional sign followed by at least one digit.  float64       *)
(* values are the integers these strings denote.                           *)
(***************************************************************************)
EXTENDS Integers, Sequences, FiniteSets, TLC

VARIABLES pc, file, closes, scanner, tokens, trace, i, result, err, prev

vars == <<pc, file, closes, scanner, tokens, trace, i, result, err, prev>>

(* Largest point count line 11 declares in the enumerated input files. *)
MaxPoints == 3

----------------------------------------------------------------------------
(* Strings *)

Comma == ","
Space == " "
NUL == "NUL"
Digits == <<"0", "1", "2", "3", "4", "5", "6", "7", "8", "9">>

Range(s) == {s[n] : n \in DOMAIN s}

IsDigit(c) == \E d \in DOMAIN Digits : Digits[d] = c

DigitVal(c) == (CHOOSE d \in DOMAIN Digits : Digits[d] = c) - 1

RECURSIVE SplitAcc(_, _, _)
SplitAcc(s, cur, acc) ==
  IF s = <<>> THEN Append(acc, cur)
  ELSE IF Head(s) = Comma THEN SplitAcc(Tail(s), <<>>, Append(acc, cur))
  ELSE SplitAcc(Tail(s), Append(cur, Head(s)), acc)

(* strings.Split(line, ","): the empty line yields one empty field. *)
Split(line) == SplitAcc(line, <<>>, <<>>)

RECURSIVE TrimLeft(_)
TrimLeft(s) ==
  IF s # <<>> /\ Head(s) = Space THEN TrimLeft(Tail(s)) ELSE s

RECURSIVE TrimRight(_)
TrimRight(s) ==
  IF s # <<>> /\ s[Len(s)] = Space THEN TrimRight(SubSeq(s, 1, Len(s) - 1)) ELSE s

(* strings.TrimSpace *)
TrimSpace(s) == TrimRight(TrimLeft(s))

(* strings.TrimSuffix(s, "\x00"): removes at most one trailing NUL. *)
TrimSuffix(s) ==
  IF s # <<>> /\ s[Len(s)] = NUL THEN SubSeq(s, 1, Len(s) - 1) ELSE s

RECURSIVE DecValue(_, _)
DecValue(s, acc) ==
  IF s = <<>> THEN acc ELSE DecValue(Tail(s), 10 * acc + DigitVal(Head(s)))

Unsigned(s) == IF s # <<>> /\ Head(s) \in {"+", "-"} THEN Tail(s) ELSE s

(* Syntax accepted by the numeric conversions on the model's characters. *)
IsNumber(s) ==
  /\ Unsigned(s) # <<>>
  /\ \A n \in DOMAIN Unsigned(s) : IsDigit(Unsigned(s)[n])

NumberValue(s) ==
  IF Head(s) = "-" THEN 0 - DecValue(Unsigned(s), 0) ELSE DecValue(Unsigned(s), 0)

(* strconv.ParseFloat(s, 64): the value and whether err == nil. *)
ParseFloat(s) ==
  IF IsNumber(s) THEN [ok |-> TRUE, val |-> NumberValue(s)]
  ELSE [ok |-> FALSE, val |-> 0]

(* strconv.Atoi(s) *)
Atoi(s) ==
  IF IsNumber(s) THEN [ok |-> TRUE, val |-> NumberValue(s)]
  ELSE [ok |-> FALSE, val |-> 0]

RECURSIVE ItoaNat(_)
ItoaNat(n) ==
  IF n < 10 THEN <<Digits[n + 1]>>
  ELSE ItoaNat(n \div 10) \o <<Digits[(n % 10) + 1]>>

(* The %d verb of fmt. *)
Itoa(n) == IF n < 0 THEN <<"-">> \o ItoaNat(0 - n) ELSE ItoaNat(n)

----------------------------------------------------------------------------
(* Errors: the format of the message and the texts of its arguments. *)

NilError == [fmt |-> "nil", args |-> <<>>]

Errorf(format, arguments) == [fmt |-> format, args |-> arguments]

(* err.Error() of the error getLineAndSplitColumns returns. *)
EntriesText(got, expected) ==
  <<"wrong number of entries / got ">> \o Itoa(got)
    \o <<" / expected ">> \o Itoa(expected)

(* err.Error() of the *strconv.NumError of a failed conversion. *)
NumErrorText(fn, s) ==
  <<"strconv.", fn, ": parsing \"">> \o s \o <<"\": invalid syntax">>

OpenError == [fmt |-> "open: no such file or directory", args |-> <<>>]

ScannerError == [fmt |-> "read error", args |-> <<>>]

RuntimeError(text) == [fmt |-> text, args |-> <<>>]

----------------------------------------------------------------------------
(* The Trace record and Go slices *)

NilSlice == [nil |-> TRUE, elems |-> <<>>]

(* make that allocates one element too many. *)
MakeSliceOneMore(n) == [nil |-> FALSE, elems |-> [j \in 1..(n + 1) |-> 0]]

(* make([]float64, n) for n >= 0 *)
MakeSlice(n) == [nil |-> FALSE, elems |-> [j \in 1..n |-> 0]]

(* Trace{}; the fields ReadCSVFile never assigns are left out. *)
ZeroTrace ==
  [OriginalFilename |-> <<>>, Title |-> <<>>, Model |-> <<>>, SerialNum |-> <<>>,
   CenterFreq |-> 0, Span |-> 0, RBW |-> 0, VBW |-> 0, RefLevel |-> 0,
   SweepTime |-> 0, NumPoints |-> 0,
   FreqLabel |-> <<>>, Trace1Label |-> <<>>, Trace2Label |-> <<>>, Trace3Label |-> <<>>,
   FreqUnits |-> <<>>, Trace1Units |-> <<>>, Trace2Units |-> <<>>, Trace3Units |-> <<>>,
   Frequency |-> NilSlice, Trace1 |-> NilSlice, Trace2 |-> NilSlice, Trace3 |-> NilSlice]

----------------------------------------------------------------------------
(* bufio.Scanner: n lines delivered so far, done once Scan has returned    *)
(* false, failed when the underlying read failed, token is Text().         *)

NewScanner == [n |-> 0, done |-> FALSE, failed |-> FALSE, token |-> <<>>]

EOF == [kind |-> "eof", text |-> <<>>]
ReadFailure == [kind |-> "fail", text |-> <<>>]
Line(l) == [kind |-> "line", text |-> l]

(* scanner.Scan() when the file answers the read with in. *)
Scan(sc, in) ==
  IF sc.done THEN [sc EXCEPT !.token = <<>>]
  ELSE IF in.kind = "line" THEN [sc EXCEPT !.n = @ + 1, !.token = in.text]
  ELSE [sc EXCEPT !.done = TRUE, !.failed = (in.kind = "fail"), !.token = <<>>]

----------------------------------------------------------------------------
(* Input files: the lines a file may hold at each position. *)

RECURSIVE Join(_)
Join(fields) ==
  IF Len(fields) = 1 THEN fields[1]
  ELSE fields[1] \o <<Comma>> \o Join(Tail(fields))

X == <<"x">>

TextLines == {Join(<<X, X>>), X, Join(<<X, X, X>>)}

SerialLines == {Join(<<X, <<"x", NUL>>>>), Join(<<X, X>>), X}

FloatLines ==
  {Join(<<X, <<"1">>, X>>), Join(<<X, X, X>>), Join(<<X, <<"1">>>>)}

CenterFreqLines ==
  FloatLines \cup {Join(<<X, <<"-", "2">>, X>>), Join(<<X, <<" ", "1">>, X>>)}

NumPointsLines ==
  {Join(<<X, Itoa(n)>>) : n \in -1..MaxPoints} \cup {Join(<<X, X>>), X}

BlankLines == {<<>>, Join(<<X, X>>)}

LabelLines == {Join(<<<<>>, X, X, X>>), Join(<<X, X, X>>)}

UnitLines ==
  {Join(<<X, X, X, X>>),
   Join(<<<<" ", "x">>, <<" ", "x", " ">>, <<"x", " ">>, <<" ", "x">>>>),
   X}

DataLines ==
  {Join(<<<<"1">>, <<"2">>, <<"0">>, <<"1">>>>),
   Join(<<<<" ", "2">>, <<"1", " ">>, <<" ", "1", " ">>, <<"0">>>>),
   Join(<<X, <<"1">>, <<"1">>, <<"1">>>>),
   Join(<<<<"1">>, X, X, <<"1">>>>),
   Join(<<<<"1">>, <<"1">>, <<" ", "x">>, <<"1">>>>),
   Join(<<<<"1">>, <<"1">>, <<"1">>, <<>>>>),
   Join(<<<<"1">>, <<"1">>, <<"1">>>>)}

(* No earlier call of ReadCSVFile is on record. *)
NoRun ==
  [ran |-> FALSE, tokens |-> <<>>, n |-> 0, done |-> FALSE, failed |-> FALSE,
   trace |-> ZeroTrace, result |-> "none", err |-> NilError]

(* The lines a file may hold at position k. *)
AnyLineAt(k) ==
  IF k \in 1..3 THEN TextLines
  ELSE IF k = 4 THEN SerialLines
  ELSE IF k = 5 THEN CenterFreqLines
  ELSE IF k \in 6..10 THEN FloatLines
  ELSE IF k = 11 THEN NumPointsLines
  ELSE IF k \in 12..13 THEN BlankLines
  ELSE IF k = 14 THEN LabelLines
  ELSE IF k = 15 THEN UnitLines
  ELSE DataLines

(* What the k-th call of Scan may read as a line.  A call made after a     *)
(* recorded one reads a file that differs from the recorded file at most   *)
(* in the content of lines 12 and 13.                                      *)
LinesAt(k) ==
  IF ~prev.ran THEN AnyLineAt(k)
  ELSE IF k \in 12..13 THEN AnyLineAt(k)
  ELSE IF k <= prev.n THEN {prev.tokens[k]}
  ELSE IF prev.done THEN {}
  ELSE AnyLineAt(k)

(* How the k-th call of Scan may find the file ended. *)
EndsAt(k) ==
  IF ~prev.ran THEN {EOF, ReadFailure}
  ELSE IF k <= prev.n THEN {}
  ELSE IF prev.done THEN {IF prev.failed THEN ReadFailure ELSE EOF}
  ELSE {EOF, ReadFailure}

Reads(k) == {Line(l) : l \in LinesAt(k)} \cup EndsAt(k)

----------------------------------------------------------------------------
(* ReadCSVFile *)

Init ==
  /\ pc = "open"
  /\ file = "none"
  /\ closes = 0
  /\ scanner = NewScanner
  /\ tokens = <<>>
  /\ trace = ZeroTrace
  /\ i = 0
  /\ result = "none"
  /\ err = NilError
  /\ prev = NoRun

(* An exit that closes the file before each return statement only. *)
ExitCloseOnReturn(res, e) ==
  /\ pc' = "done"
  /\ result' = res
  /\ err' = e
  /\ file' = IF res = "panic" THEN file ELSE "closed"
  /\ closes' = IF res = "panic" THEN closes ELSE closes + 1

(* A return or a panic after `defer file.Close()`: the deferred call runs. *)
Exit(res, e) ==
  /\ pc' = "done"
  /\ result' = res
  /\ err' = e
  /\ file' = "closed"
  /\ closes' = closes + 1

Continue(next) ==
  /\ pc' = next
  /\ UNCHANGED <<result, err, file, closes>>

(* os.Open and the creation of the scanner. *)
Open ==
  /\ pc = "open"
  /\ \E opened \in BOOLEAN :
       IF opened
       THEN /\ file' = "open"
            /\ pc' = "header"
            /\ UNCHANGED <<result, err>>
       ELSE /\ file' = "none"
            /\ pc' = "done"
            /\ result' = "err"
            /\ err' = OpenError
  /\ UNCHANGED <<closes, scanner, tokens, trace, i, prev>>

(* getLineAndSplitColumns that only rejects lines with too few entries. *)
getLineAtLeastColumns(in, numEntries) ==
  LET sc == Scan(scanner, in)
      s == Split(sc.token)
  IN [scanner |-> sc, columns |-> s, ok |-> Len(s) >= numEntries,
      text |-> EntriesText(Len(s), numEntries)]

(* getLineAndSplitColumns(scanner, numEntries) when the read answers in. *)
getLineAndSplitColumns(in, numEntries) ==
  LET sc == Scan(scanner, in)
      s == Split(sc.token)
  IN [scanner |-> sc, columns |-> s, ok |-> Len(s) = numEntries,
      text |-> EntriesText(Len(s), numEntries)]

LineErrorFormat ==
  <<"error in first (date/filename) line: %s",
    "error in second (title) line: %s",
    "error in third (model) line: %s",
    "error in fourth (serial number) line: %s",
    "error in fifth (center freq) line: %s",
    "error in sixth (span) line: %s",
    "error in seventh (rbw) line: %s",
    "error in eighth (vbw) line: %s",
    "error in ninth (ref level) line: %s",
    "error in tenth (sweep time) line: %s",
    "error in eleventh (num points) line: %s">>

ParseErrorFormat ==
  [k \in 5..11 |->
     CASE k = 5 -> "error parsing center frequency: %s"
       [] k = 6 -> "error parsing span: %s"
       [] k = 7 -> "error parsing rbw: %s"
       [] k = 8 -> "error parsing vbw: %s"
       [] k = 9 -> "error parsing ref level: %s"
       [] k = 10 -> "error parsing sweep time: %s"
       [] k = 11 -> "error parsing num points: %s"]

(* The assignment to the Trace made from header line k. *)
SetText(t, k, v) ==
  CASE k = 1 -> [t EXCEPT !.OriginalFilename = v]
    [] k = 2 -> [t EXCEPT !.Title = v]
    [] k = 3 -> [t EXCEPT !.Model = v]
    [] k = 4 -> [t EXCEPT !.SerialNum = TrimSuffix(v)]

(* SetFloat with the span block still assigning the center frequency. *)
SetFloatCopied(t, k, v) ==
  CASE k = 5 -> [t EXCEPT !.CenterFreq = v]
    [] k = 6 -> [t EXCEPT !.CenterFreq = v]
    [] k = 7 -> [t EXCEPT !.RBW = v]
    [] k = 8 -> [t EXCEPT !.VBW = v]
    [] k = 9 -> [t EXCEPT !.RefLevel = v]
    [] k = 10 -> [t EXCEPT !.SweepTime = v]

SetFloat(t, k, v) ==
  CASE k = 5 -> [t EXCEPT !.CenterFreq = v]
    [] k = 6 -> [t EXCEPT !.Span = v]
    [] k = 7 -> [t EXCEPT !.RBW = v]
    [] k = 8 -> [t EXCEPT !.VBW = v]
    [] k = 9 -> [t EXCEPT !.RefLevel = v]
    [] k = 10 -> [t EXCEPT !.SweepTime = v]

(* Lines 1..4: filename, title, model, serial number. *)
ParseTextLine ==
  /\ pc = "header"
  /\ Len(tokens) + 1 \in 1..4
  /\ LET k == Len(tokens) + 1 IN
     \E in \in Reads(k) :
       LET r == getLineAndSplitColumns(in, 2) IN
       /\ scanner' = r.scanner
       /\ tokens' = Append(tokens, r.scanner.token)
       /\ IF ~r.ok
          THEN /\ Exit("err", Errorf(LineErrorFormat[k], <<r.text>>))
               /\ UNCHANGED trace
          ELSE /\ trace' = SetText(trace, k, r.columns[2])
               /\ Continue("header")
  /\ UNCHANGED <<i, prev>>

(* Lines 5..10: center frequency, span, rbw, vbw, ref level, sweep time. *)
ParseFloatLine ==
  /\ pc = "header"
  /\ Len(tokens) + 1 \in 5..10
  /\ LET k == Len(tokens) + 1 IN
     \E in \in Reads(k) :
       LET r == getLineAndSplitColumns(in, 3) IN
       /\ scanner' = r.scanner
       /\ tokens' = Append(tokens, r.scanner.token)
       /\ IF ~r.ok
          THEN /\ Exit("err", Errorf(LineErrorFormat[k], <<r.text>>))
               /\ UNCHANGED trace
          ELSE LET f == ParseFloat(r.columns[2]) IN
               IF ~f.ok
               THEN /\ Exit("err", Errorf(ParseErrorFormat[k],
                                 <<NumErrorText("ParseFloat", r.columns[2])>>))
                    /\ UNCHANGED trace
               ELSE /\ trace' = SetFloat(trace, k, f.val)
                    /\ Continue("header")
  /\ UNCHANGED <<i, prev>>

(* Line 11: the number of points. *)
ParseNumPoints ==
  /\ pc = "header"
  /\ Len(tokens) + 1 = 11
  /\ \E in \in Reads(11) :
       LET r == getLineAndSplitColumns(in, 2) IN
       /\ scanner' = r.scanner
       /\ tokens' = Append(tokens, r.scanner.token)
       /\ IF ~r.ok
          THEN /\ Exit("err", Errorf(LineErrorFormat[11], <<r.text>>))
               /\ UNCHANGED trace
          ELSE LET n == Atoi(r.columns[2]) IN
               IF ~n.ok
               THEN /\ Exit("err", Errorf(ParseErrorFormat[11],
                                 <<NumErrorText("Atoi", r.columns[2])>>))
                    /\ UNCHANGED trace
               ELSE /\ trace' = [trace EXCEPT !.NumPoints = n.val]
                    /\ Continue("header")
  /\ UNCHANGED <<i, prev>>

(* A skip that insists on the separator lines being blank. *)
SkipBlankLine ==
  /\ pc = "header"
  /\ Len(tokens) + 1 \in 12..13
  /\ \E in \in Reads(Len(tokens) + 1) :
       /\ scanner' = Scan(scanner, in)
       /\ tokens' = Append(tokens, scanner'.token)
       /\ IF scanner'.token # <<>>
          THEN Exit("err", Errorf("error in blank line: %s", <<scanner'.token>>))
          ELSE Continue("header")
  /\ UNCHANGED <<trace, i, prev>>

(* Lines 12 and 13: scanner.Scan() with the result discarded. *)
SkipLine ==
  /\ pc = "header"
  /\ Len(tokens) + 1 \in 12..13
  /\ \E in \in Reads(Len(tokens) + 1) :
       /\ scanner' = Scan(scanner, in)
       /\ tokens' = Append(tokens, scanner'.token)
  /\ Continue("header")
  /\ UNCHANGED <<trace, i, prev>>

(* Line 14: the labels. *)
ParseLabels ==
  /\ pc = "header"
  /\ Len(tokens) + 1 = 14
  /\ \E in \in Reads(14) :
       LET sc == Scan(scanner, in)
           line == sc.token
           s == Split(line)
       IN /\ scanner' = sc
          /\ tokens' = Append(tokens, line)
          /\ IF Len(s) # 4
             THEN /\ Exit("err", Errorf("error in trace label line: %s", <<line>>))
                  /\ UNCHANGED trace
             ELSE /\ trace' = [trace EXCEPT !.FreqLabel = s[1],
                                            !.Trace1Label = s[2],
                                            !.Trace2Label = s[3],
                                            !.Trace3Label = s[4]]
                  /\ Continue("header")
  /\ UNCHANGED <<i, prev>>

(* The units line 15 assigns from its fields. *)
SetUnits(t, s) ==
  [t EXCEPT !.FreqUnits = s[1],
            !.Trace1Units = TrimSpace(s[2]),
            !.Trace2Units = TrimSpace(s[3]),
            !.Trace3Units = TrimSpace(s[4])]

(* Line 15: the units. *)
ParseUnits ==
  /\ pc = "header"
  /\ Len(tokens) + 1 = 15
  /\ \E in \in Reads(15) :
       LET sc == Scan(scanner, in)
           line == sc.token
           s == Split(line)
       IN /\ scanner' = sc
          /\ tokens' = Append(tokens, line)
          /\ IF Len(s) # 4
             THEN /\ Exit("err", Errorf("error in trace units line: %s", <<line>>))
                  /\ UNCHANGED trace
             ELSE /\ trace' = SetUnits(trace, s)
                  /\ Continue("make")
  /\ UNCHANGED <<i, prev>>

(* The four make([]float64, trace.NumPoints) and i := 0; make panics on a  *)
(* negative length.                                                        *)
MakeSlices ==
  /\ pc = "make"
  /\ IF trace.NumPoints < 0
     THEN /\ Exit("panic", RuntimeError("panic: runtime error: makeslice: len out of range"))
          /\ UNCHANGED <<trace, i>>
     ELSE /\ trace' = [trace EXCEPT !.Frequency = MakeSlice(trace.NumPoints),
                                    !.Trace1 = MakeSlice(trace.NumPoints),
                                    !.Trace2 = MakeSlice(trace.NumPoints),
                                    !.Trace3 = MakeSlice(trace.NumPoints)]
          /\ i' = 0
          /\ Continue("data")
  /\ UNCHANGED <<scanner, tokens, prev>>

DataFieldFormat ==
  <<"error parsing frequency %s for data point %d",
    "error parsing trace 1 %s for data point %d",
    "error parsing trace 2 %s for data point %d",
    "error parsing trace 3 %s for data point %d">>

(* The fields of a data line whose conversion fails, in the order tried. *)
FailingFields(s) == {c \in 1..4 : ~ParseFloat(TrimSpace(s[c])).ok}

(* The field reported when the conversions are checked after all four ran. *)
LastFailing(s) == CHOOSE c \in FailingFields(s) : \A d \in FailingFields(s) : c >= d

FirstFailing(s) == CHOOSE c \in FailingFields(s) : \A d \in FailingFields(s) : c <= d

(* Whether an index is within a slice (Go indexes from 0). *)
InRange(slice, n) == n >= 0 /\ n < Len(slice.elems)

(* A store that ignores the running index. *)
StoreFirst(slice, n, v) == [slice EXCEPT !.elems[1] = v]

Store(slice, n, v) == [slice EXCEPT !.elems[n + 1] = v]

(* One iteration of the data loop: scanner.Scan() returned true. *)
DataLine ==
  /\ pc = "data"
  /\ ~scanner.done
  /\ \E l \in LinesAt(Len(tokens) + 1) :
       LET sc == Scan(scanner, Line(l))
           line == sc.token
           s == Split(line)
       IN /\ scanner' = sc
          /\ tokens' = Append(tokens, line)
          /\ IF Len(s) # 4
             THEN /\ Exit("err", Errorf("error in trace data line: %s", <<line>>))
                  /\ UNCHANGED <<trace, i>>
             ELSE IF FailingFields(s) # {}
             THEN /\ Exit("err", Errorf(DataFieldFormat[FirstFailing(s)],
                                        <<s[FirstFailing(s)], Itoa(i)>>))
                  /\ UNCHANGED <<trace, i>>
             ELSE IF ~InRange(trace.Frequency, i)
             THEN /\ Exit("panic", RuntimeError("panic: runtime error: index out of range"))
                  /\ UNCHANGED <<trace, i>>
             ELSE /\ trace' =
                       [trace EXCEPT
                          !.Frequency = Store(@, i, ParseFloat(TrimSpace(s[1])).val),
                          !.Trace1 = Store(@, i, ParseFloat(TrimSpace(s[2])).val),
                          !.Trace2 = Store(@, i, ParseFloat(TrimSpace(s[3])).val),
                          !.Trace3 = Store(@, i, ParseFloat(TrimSpace(s[4])).val)]
                  /\ i' = i + 1
                  /\ Continue("data")
  /\ UNCHANGED prev

(* scanner.Scan() returned false: the loop ends and scanner.Err() decides. *)
ScanEnd ==
  /\ pc = "data"
  /\ \E in \in EndsAt(Len(tokens) + 1) :
       LET sc == Scan(scanner, in) IN
       /\ scanner' = sc
       /\ tokens' = Append(tokens, sc.token)
       /\ IF sc.failed
          THEN Exit("err", ScannerError)
          ELSE Exit("ok", NilError)
  /\ UNCHANGED <<trace, i, prev>>

Next ==
  \/ Open
  \/ ParseTextLine
  \/ ParseFloatLine
  \/ ParseNumPoints
  \/ SkipLine
  \/ ParseLabels
  \/ ParseUnits
  \/ MakeSlices
  \/ DataLine
  \/ ScanEnd

Spec == Init /\ [][Next]_vars

(* A second call of ReadCSVFile, made once a first call that read lines 12 *)
(* and 13 has ended: the first call's file and outcome are put on record   *)
(* and the call starts afresh, no state being shared between calls.        *)
Restart ==
  /\ pc = "done"
  /\ ~prev.ran
  /\ scanner.n >= 13
  /\ prev' = [ran |-> TRUE, tokens |-> tokens, n |-> scanner.n,
              done |-> scanner.done, failed |-> scanner.failed,
              trace |-> trace, result |-> result, err |-> err]
  /\ pc' = "open"
  /\ file' = "none"
  /\ closes' = 0
  /\ scanner' = NewScanner
  /\ tokens' = <<>>
  /\ trace' = ZeroTrace
  /\ i' = 0
  /\ result' = "none"
  /\ err' = NilError

NextTwice ==
  \/ Next
  \/ Restart

(* Two calls in a row, on files equal except in lines 12 and 13. *)
SpecTwice == Init /\ [][NextTwice]_vars

----------------------------------------------------------------------------
(* Properties *)

(* Field c (from 1) of the k-th line the scanner returned. *)
Field(k, c) == Split(tokens[k])[c]

(* The data lines read so far are tokens[16..], one per delivered line. *)
DataRows == IF scanner.n > 15 THEN scanner.n - 15 ELSE 0

WellFormedRow(l) ==
  /\ Len(Split(l)) = 4
  /\ \A c \in 1..4 : IsNumber(TrimSpace(Split(l)[c]))

Slices == <<trace.Frequency, trace.Trace1, trace.Trace2, trace.Trace3>>

(* C1: whenever ReadCSVFile returns a nil error, Frequency, Trace1, Trace2 *)
(* and Trace3 all have length NumPoints, whatever number of data lines the *)
(* file held.                                                              *)
C1_LengthsEqualNumPoints ==
  result = "ok" => \A c \in 1..4 : Len(Slices[c].elems) = trace.NumPoints

C1_Witness ==
  /\ result = "ok"
  /\ trace.NumPoints = 2
  /\ DataRows = 1
  /\ Len(trace.Trace3.elems) = 2

(* C2: a file with more well-formed data lines than line 11 declares makes *)
(* ReadCSVFile return a non-nil error as a value, without abrupt           *)
(* termination.                                                            *)
C2_OverCountReturnsError ==
  ( /\ pc = "done"
    /\ trace.NumPoints >= 0
    /\ Cardinality({k \in 16..scanner.n : WellFormedRow(tokens[k])}) > trace.NumPoints )
  => result = "err"

(* C3: a header line 1..11, 14 or 15 whose split does not have the         *)
(* expected number of fields (2,2,2,2,3,3,3,3,3,3,2 and 4,4), an absent    *)
(* line included, ends the call at once with a non-nil error and no        *)
(* further Scan; no file of fewer than 15 lines parses successfully.       *)
C3_WrongCountFailsAtOnce ==
  LET expected == [k \in 1..15 |->
                     IF k \in 1..4 \/ k = 11 THEN 2
                     ELSE IF k \in 5..10 THEN 3 ELSE 4]
  IN /\ \A k \in (1..11) \cup {14, 15} :
          (Len(tokens) >= k /\ Len(Split(tokens[k])) # expected[k])
          => (pc = "done" /\ result = "err" /\ Len(tokens) = k /\ scanner.n <= k)
     /\ result = "ok" => scanner.n >= 15

C3_Witness ==
  /\ pc = "done"
  /\ result = "err"
  /\ Len(tokens) = 14
  /\ scanner.n = 11
  /\ scanner.done
  /\ tokens[14] = <<>>

(* The Trace the header lines 1..k fill, sample sequences left nil. *)
ExpectedHeader(k) ==
  [OriginalFilename |-> IF k >= 1 THEN Field(1, 2) ELSE <<>>,
   Title |-> IF k >= 2 THEN Field(2, 2) ELSE <<>>,
   Model |-> IF k >= 3 THEN Field(3, 2) ELSE <<>>,
   SerialNum |-> IF k >= 4 THEN TrimSuffix(Field(4, 2)) ELSE <<>>,
   CenterFreq |-> IF k >= 5 THEN NumberValue(Field(5, 2)) ELSE 0,
   Span |-> IF k >= 6 THEN NumberValue(Field(6, 2)) ELSE 0,
   RBW |-> IF k >= 7 THEN NumberValue(Field(7, 2)) ELSE 0,
   VBW |-> IF k >= 8 THEN NumberValue(Field(8, 2)) ELSE 0,
   RefLevel |-> IF k >= 9 THEN NumberValue(Field(9, 2)) ELSE 0,
   SweepTime |-> IF k >= 10 THEN NumberValue(Field(10, 2)) ELSE 0,
   NumPoints |-> IF k >= 11 THEN NumberValue(Field(11, 2)) ELSE 0,
   FreqLabel |-> IF k >= 14 THEN Field(14, 1) ELSE <<>>,
   Trace1Label |-> IF k >= 14 THEN Field(14, 2) ELSE <<>>,
   Trace2Label |-> IF k >= 14 THEN Field(14, 3) ELSE <<>>,
   Trace3Label |-> IF k >= 14 THEN Field(14, 4) ELSE <<>>,
   FreqUnits |-> IF k >= 15 THEN Field(15, 1) ELSE <<>>,
   Trace1Units |-> IF k >= 15 THEN TrimSpace(Field(15, 2)) ELSE <<>>,
   Trace2Units |-> IF k >= 15 THEN TrimSpace(Field(15, 3)) ELSE <<>>,
   Trace3Units |-> IF k >= 15 THEN TrimSpace(Field(15, 4)) ELSE <<>>,
   Frequency |-> NilSlice, Trace1 |-> NilSlice, Trace2 |-> NilSlice,
   Trace3 |-> NilSlice]

(* The value row r (from 0) of the data section gives column c. *)
RowValue(r, c) == NumberValue(TrimSpace(Field(16 + r, c)))

(* Rows 0..m-1 hold the first m data lines, the rows from m on are zero.   *)
RowsFilled(m) ==
  \A c \in 1..4 :
    /\ ~Slices[c].nil
    /\ Len(Slices[c].elems) = trace.NumPoints
    /\ \A r \in 0..(trace.NumPoints - 1) :
         Slices[c].elems[r + 1] = IF r < m THEN RowValue(r, c) ELSE 0

ParseFailure ==
  /\ result = "err"
  /\ err # OpenError
  /\ err # ScannerError

(* C4: a failure at header line k returns the Trace holding the values of  *)
(* lines 1..k-1 and zero values (nil sample sequences) in every field fed  *)
(* by line k or later; a failure at data row i returns all header fields   *)
(* populated, four sequences of length NumPoints, rows 0..i-1 parsed and   *)
(* rows i..NumPoints-1 zero.                                               *)
C4_PartialTrace ==
  /\ (ParseFailure /\ Len(tokens) <= 15)
     => trace = ExpectedHeader(Len(tokens) - 1)
  /\ (ParseFailure /\ Len(tokens) > 15)
     => /\ [trace EXCEPT !.Frequency = NilSlice, !.Trace1 = NilSlice,
                         !.Trace2 = NilSlice, !.Trace3 = NilSlice]
             = ExpectedHeader(15)
        /\ i = Len(tokens) - 16
        /\ RowsFilled(i)

C4_Witness ==
  /\ ParseFailure
  /\ Len(tokens) = 17
  /\ trace.NumPoints = 3
  /\ trace.Trace2.elems = <<1, 0, 0>>
  /\ trace.SerialNum = X

(* A second reachable case of C4: the failure is in the header. *)
C4_HeaderCase ==
  /\ ParseFailure
  /\ Len(tokens) = 7
  /\ trace.Span = 1
  /\ trace.RBW = 0

(* C5: a read failure of the scanner, in the header or in the data         *)
(* section, is returned as the scanner's own error, never as a structural  *)
(* or numeric error and never as success.                                  *)
C5_ReadFailureIsIOError ==
  (pc = "done" /\ scanner.failed) => (result = "err" /\ err = ScannerError)

StructuralFormats ==
  Range(LineErrorFormat)
    \cup {"error in trace label line: %s", "error in trace units line: %s",
          "error in trace data line: %s"}

(* C6: every structural error carries the position of the failing line    *)
(* and the raw text of that line.                                          *)
C6_StructuralErrorCarriesLine ==
  (result = "err" /\ err.fmt \in StructuralFormats)
  => tokens[Len(tokens)] \in Range(err.args)

(* C7: a data line of 4 fields with a trimmed field that is no float64     *)
(* gives an error naming the 0-based index, equal to the number of rows    *)
(* stored before, and the first failing field in the order frequency,      *)
(* trace 1, trace 2, trace 3; no value of the row is stored.               *)
C7_DataConversionError ==
  LET l == tokens[Len(tokens)]
      s == Split(l)
      bad == {c \in 1..4 : ~IsNumber(TrimSpace(s[c]))}
      first == CHOOSE c \in bad : \A d \in bad : c <= d
      named == <<"error parsing frequency %s for data point %d",
                 "error parsing trace 1 %s for data point %d",
                 "error parsing trace 2 %s for data point %d",
                 "error parsing trace 3 %s for data point %d">>
  IN (pc = "done" /\ Len(tokens) >= 16 /\ scanner.n = Len(tokens)
        /\ Len(s) = 4 /\ bad # {})
     => /\ result = "err"
        /\ err.fmt = named[first]
        /\ err.args = <<s[first], Itoa(Len(tokens) - 16)>>
        /\ i = Len(tokens) - 16
        /\ RowsFilled(i)

C7_Witness ==
  /\ pc = "done"
  /\ result = "err"
  /\ Len(tokens) = 18
  /\ tokens[18] = Join(<<<<"1">>, X, X, <<"1">>>>)
  /\ err.args[2] = <<"2">>
  /\ trace.NumPoints = 3

ValidHeader ==
  /\ scanner.n >= 15
  /\ \A k \in 1..4 : Len(Split(tokens[k])) = 2
  /\ \A k \in 5..10 : Len(Split(tokens[k])) = 3 /\ IsNumber(Field(k, 2))
  /\ Len(Split(tokens[11])) = 2 /\ IsNumber(Field(11, 2))
  /\ Len(Split(tokens[14])) = 4
  /\ Len(Split(tokens[15])) = 4

(* C8: a valid 15-line header followed by m < NumPoints well-formed data   *)
(* lines and the end of the file gives a nil error, entries 0..m-1 holding *)
(* the rows in file order and entries m..NumPoints-1 zero.                 *)
C8_UnderCount ==
  ( /\ pc = "done"
    /\ ValidHeader
    /\ scanner.done /\ ~scanner.failed
    /\ \A k \in 16..scanner.n : WellFormedRow(tokens[k])
    /\ scanner.n - 15 < NumberValue(Field(11, 2)) )
  => /\ result = "ok"
     /\ trace.NumPoints = NumberValue(Field(11, 2))
     /\ RowsFilled(scanner.n - 15)

C8_Witness ==
  /\ result = "ok"
  /\ trace.NumPoints = 3
  /\ scanner.n = 17
  /\ trace.Frequency.elems = <<1, 2, 0>>
  /\ trace.Trace1.elems = <<2, 1, 0>>

(* A second reachable case of C8: no data line at all. *)
C8_NoRows ==
  /\ result = "ok"
  /\ trace.NumPoints = 2
  /\ scanner.n = 15
  /\ trace.Frequency.elems = <<0, 0>>

(* C9: after line 15 each of FreqUnits, Trace1Units, Trace2Units and       *)
(* Trace3Units is the corresponding field of line 15 with leading and      *)
(* trailing whitespace removed.                                            *)
C9_UnitsTrimmed ==
  (pc \in {"make", "data"})
  => /\ trace.FreqUnits = TrimSpace(Field(15, 1))
     /\ trace.Trace1Units = TrimSpace(Field(15, 2))
     /\ trace.Trace2Units = TrimSpace(Field(15, 3))
     /\ trace.Trace3Units = TrimSpace(Field(15, 4))

(* C10: once the file is open it is closed exactly once when the call      *)
(* ends, on every exit path, the panics included; a failed open holds and  *)
(* releases no handle.                                                     *)
C10_ClosedExactlyOnce ==
  /\ closes = IF file = "closed" THEN 1 ELSE 0
  /\ pc = "open" => file = "none"
  /\ pc \notin {"open", "done"} => file = "open"
  /\ pc = "done" =>
       IF result = "err" /\ err = OpenError /\ tokens = <<>>
       THEN file = "none"
       ELSE file = "closed"

C10_Witness ==
  /\ result = "panic"
  /\ Len(tokens) > 16
  /\ file = "closed"
  /\ closes = 1

(* C12: for every point count line 11 can declare, zero and negative ones  *)
(* included, with a header valid through line 15, the sizing of the four   *)
(* sample sequences does not end the call abruptly: ReadCSVFile goes on to *)
(* return a (Trace, error) pair.                                           *)
C12_SizingDoesNotPanic ==
  (pc = "done" /\ ValidHeader /\ Len(tokens) = 15) => result \in {"ok", "err"}

(* C11: lines 12 and 13 are consumed but never inspected.  Two files that  *)
(* differ only in the content of lines 12 and 13 give the same Trace and   *)
(* the same error outcome, after the same number of reads; and the labels  *)
(* are the fields of the 14th line of the file, two lines after line 11.   *)
C11_SkippedLinesIgnored ==
  /\ (prev.ran /\ pc = "done" /\ file = "closed")
     => /\ trace = prev.trace
        /\ result = prev.result
        /\ err = prev.err
        /\ Len(tokens) = Len(prev.tokens)
        /\ scanner.n = prev.n
  /\ (scanner.n >= 14 /\ Len(Split(tokens[14])) = 4)
     => /\ trace.FreqLabel = Field(14, 1)
        /\ trace.Trace1Label = Field(14, 2)
        /\ trace.Trace2Label = Field(14, 3)
        /\ trace.Trace3Label = Field(14, 4)

C11_Witness ==
  /\ prev.ran
  /\ pc = "done"
  /\ result = "ok"
  /\ tokens[12] # prev.tokens[12]
  /\ tokens[13] # prev.tokens[13]
  /\ tokens[13] = Join(<<X, X>>)
  /\ trace.NumPoints = 2
  /\ trace.Trace1.elems = <<2, 0>>
  /\ trace.Trace1Label = X

====
